---------------------------- MODULE Spec2Model ----------------------------
(***************************************************************************)
(* Model of organizer.py (src/main.py): the record loop of main() that     *)
(* files a PDF under <root>/<CONTINENT>/<Country>/<City>/, and the two     *)
(* normalizers normalize_country and normalize_city.                       *)
(*                                                                         *)
(* A Python str is a sequence of one-character strings, so that strip,     *)
(* lower, title, capitalize, split and os.path.join are computed character *)
(* by character as CPython computes them.                                  *)
(***************************************************************************)
EXTENDS Integers, Sequences, FiniteSets, TLC

VARIABLES
    ignoreKeywords, \* IGNORE_KEYWORDS, the configured list of keywords
    listing,        \* the result of os.listdir(SOURCE_FOLDER)
    pc,             \* position of main: start, files, records, done, aborted
    idx,            \* index in listing of the file the outer loop is at
    destinations,   \* shape of the value analyze_text_with_gemini returned
    recNo,          \* number of elements of destinations already iterated
    d,              \* the element of destinations the inner loop is at
    city,           \* normalize_city(city_raw) of that element
    country,        \* normalize_country(country_raw) of that element
    continent,      \* continent_raw.upper() of that element
    dst,            \* os.path.abspath(dst) of that element, as path components
    outcome,        \* what main did with that element
    copied,         \* the set copied of main: keys (abs src, abs dst)
    dirs,           \* directories os.makedirs has created
    files,          \* files shutil.copy2 has written
    ops,            \* per key: copies started / failed / succeeded in this run
    ignored,        \* file names reported "[IGNORED]"
    extracted,      \* file names extract_text was called on
    analyzed,       \* file names analyze_text_with_gemini was called on
    incomplete,     \* "[INCOMPLETE]" entries of LOG_JSON: <<file name, record number>>
    exc,            \* the exception that ended main, "" when none
    fn, arg, ret    \* a direct call of a normalizer: its name, argument, result

vars == <<ignoreKeywords, listing, pc, idx, destinations, recNo, d, city, country,
          continent, dst, outcome, copied, dirs, files, ops, ignored, extracted,
          analyzed, incomplete, exc, fn, arg, ret>>

mainVars == <<ignoreKeywords, listing, pc, idx, destinations, recNo, d, city, country,
              continent, dst, outcome, copied, dirs, files, ops, ignored, extracted,
              analyzed, incomplete, exc>>

---------------------------------------------------------------------------
(* Bounds of the model.                                                    *)

MaxFiles == 2   \* entries of the source folder
MaxRecs == 2    \* elements of one classifier answer

---------------------------------------------------------------------------
(* Python str methods.                                                     *)

LowerChars == <<"a","b","c","d","e","f","g","h","i","j","k","l","m","n","o","p","q","r","s","t","u","v","w","x","y","z">>
UpperChars == <<"A","B","C","D","E","F","G","H","I","J","K","L","M","N","O","P","Q","R","S","T","U","V","W","X","Y","Z">>
Digits == {"0", "1", "2", "3", "4", "5", "6", "7", "8", "9"}
WhiteSpace == {" ", "\t", "\n"}

Range(s) == {s[i] : i \in 1..Len(s)}

islower(c) == c \in Range(LowerChars)
isupper(c) == c \in Range(UpperChars)
iscased(c) == islower(c) \/ isupper(c)
isalnum(c) == iscased(c) \/ c \in Digits
isspace(c) == c \in WhiteSpace

lower1(c) == IF isupper(c) THEN LowerChars[CHOOSE i \in 1..26 : UpperChars[i] = c] ELSE c
upper1(c) == IF islower(c) THEN UpperChars[CHOOSE i \in 1..26 : LowerChars[i] = c] ELSE c

\* str.lower(), str.upper()
lower(s) == [i \in 1..Len(s) |-> lower1(s[i])]
upper(s) == [i \in 1..Len(s) |-> upper1(s[i])]

RECURSIVE lstrip(_)
lstrip(s) == IF s # <<>> /\ isspace(Head(s)) THEN lstrip(Tail(s)) ELSE s

RECURSIVE rstrip(_)
rstrip(s) == IF s # <<>> /\ isspace(s[Len(s)]) THEN rstrip(SubSeq(s, 1, Len(s) - 1)) ELSE s

\* str.strip()
strip(s) == rstrip(lstrip(s))

\* str.title(): a cased character is upper-cased after an uncased one and
\* lower-cased after a cased one.
RECURSIVE titleFrom(_, _)
titleFrom(s, prevCased) ==
    IF s = <<>> THEN <<>>
    ELSE IF iscased(Head(s))
         THEN <<IF prevCased THEN lower1(Head(s)) ELSE upper1(Head(s))>>
              \o titleFrom(Tail(s), TRUE)
         ELSE <<Head(s)>> \o titleFrom(Tail(s), FALSE)

title(s) == titleFrom(s, FALSE)

capitalize_first_only(s) == IF s = <<>> THEN <<>> ELSE <<upper1(Head(s))>> \o Tail(s)

\* str.capitalize(): first character upper-cased, all the others lower-cased.
capitalize(s) == IF s = <<>> THEN <<>> ELSE <<upper1(Head(s))>> \o lower(Tail(s))

\* str.split() without argument: the maximal runs of non-whitespace.
RECURSIVE splitFrom(_, _, _)
splitFrom(s, cur, acc) ==
    IF s = <<>> THEN (IF cur = <<>> THEN acc ELSE Append(acc, cur))
    ELSE IF isspace(Head(s))
         THEN splitFrom(Tail(s), <<>>, IF cur = <<>> THEN acc ELSE Append(acc, cur))
         ELSE splitFrom(Tail(s), Append(cur, Head(s)), acc)

split(s) == splitFrom(s, <<>>, <<>>)

\* sep.join(words)
RECURSIVE join(_, _)
join(sep, words) ==
    IF words = <<>> THEN <<>>
    ELSE IF Len(words) = 1 THEN words[1]
    ELSE words[1] \o sep \o join(sep, Tail(words))

\* "".join(ch for ch in s if ch.isalnum() or ch.isspace())
alnum_or_space(s) == SelectSeq(s, LAMBDA ch : isalnum(ch) \/ isspace(ch))

\* needle in haystack
contains(haystack, needle) ==
    \E i \in 1..(Len(haystack) - Len(needle) + 1) :
        SubSeq(haystack, i, i + Len(needle) - 1) = needle

endswith(s, suffix) ==
    /\ Len(s) >= Len(suffix)
    /\ SubSeq(s, Len(s) - Len(suffix) + 1, Len(s)) = suffix

---------------------------------------------------------------------------
(* The normalizers.                                                        *)

COUNTRY_NORMALIZATION ==
    {
       <<<<"u","s","a">>, <<"U","n","i","t","e","d"," ","S","t","a","t","e","s">>>>,
       <<<<"u","s">>, <<"U","n","i","t","e","d"," ","S","t","a","t","e","s">>>>,
       <<<<"u",".","s",".">>, <<"U","n","i","t","e","d"," ","S","t","a","t","e","s">>>>,
       <<<<"u",".","s",".","a">>, <<"U","n","i","t","e","d"," ","S","t","a","t","e","s">>>>,
       <<<<"e","s","t","a","d","o","s"," ","u","n","i","d","o","s">>, <<"U","n","i","t","e","d"," ","S","t","a","t","e","s">>>>,
       <<<<"a","m","e","r","i","c","a">>, <<"U","n","i","t","e","d"," ","S","t","a","t","e","s">>>>,
       <<<<"u","n","i","t","e","d"," ","s","t","a","t","e","s"," ","o","f"," ","a","m","e","r","i","c","a">>, <<"U","n","i","t","e","d"," ","S","t","a","t","e","s">>>>,
       <<<<"u","k">>, <<"U","n","i","t","e","d"," ","K","i","n","g","d","o","m">>>>,
       <<<<"u",".","k",".">>, <<"U","n","i","t","e","d"," ","K","i","n","g","d","o","m">>>>,
       <<<<"e","n","g","l","a","n","d">>, <<"U","n","i","t","e","d"," ","K","i","n","g","d","o","m">>>>,
       <<<<"b","r","i","t","a","i","n">>, <<"U","n","i","t","e","d"," ","K","i","n","g","d","o","m">>>>,
       <<<<"g","r","e","a","t"," ","b","r","i","t","a","i","n">>, <<"U","n","i","t","e","d"," ","K","i","n","g","d","o","m">>>>,
       <<<<"b","r","a","s","i","l">>, <<"B","r","a","z","i","l">>>>,
       <<<<"b","r","a","z","i","l">>, <<"B","r","a","z","i","l">>>>,
       <<<<"a","r","g","e","n","t","i","n","a">>, <<"A","r","g","e","n","t","i","n","a">>>>,
       <<<<"c","h","i","l","e">>, <<"C","h","i","l","e">>>>,
       <<<<"s","p","a","i","n">>, <<"S","p","a","i","n">>>>,
       <<<<"e","s","p","a","n","h","a">>, <<"S","p","a","i","n">>>>,
       <<<<"c","h","i","n","a">>, <<"C","h","i","n","a">>>>,
       <<<<"k","o","r","e","a">>, <<"S","o","u","t","h"," ","K","o","r","e","a">>>>,
       <<<<"s","o","u","t","h"," ","k","o","r","e","a">>, <<"S","o","u","t","h"," ","K","o","r","e","a">>>>,
       <<<<"j","a","p","a","n">>, <<"J","a","p","a","n">>>>,
       <<<<"t","h","a","i","l","a","n","d">>, <<"T","h","a","i","l","a","n","d">>>>,
       <<<<"i","n","d","i","a">>, <<"I","n","d","i","a">>>>,
       <<<<"s","w","i","t","z","e","r","l","a","n","d">>, <<"S","w","i","t","z","e","r","l","a","n","d">>>>,
       <<<<"s","u","i","s","s","e">>, <<"S","w","i","t","z","e","r","l","a","n","d">>>>,
       <<<<"s","c","h","w","e","i","z">>, <<"S","w","i","t","z","e","r","l","a","n","d">>>>,
       <<<<"n","e","d","e","r","l","a","n","d">>, <<"N","e","t","h","e","r","l","a","n","d","s">>>>,
       <<<<"h","o","l","l","a","n","d">>, <<"N","e","t","h","e","r","l","a","n","d","s">>>>,
       <<<<"n","e","t","h","e","r","l","a","n","d","s">>, <<"N","e","t","h","e","r","l","a","n","d","s">>>>,
       <<<<"u","a","e">>, <<"U","n","i","t","e","d"," ","A","r","a","b"," ","E","m","i","r","a","t","e","s">>>>,
       <<<<"e","m","i","r","a","t","e","s">>, <<"U","n","i","t","e","d"," ","A","r","a","b"," ","E","m","i","r","a","t","e","s">>>>,
       <<<<"d","u","b","a","i">>, <<"U","n","i","t","e","d"," ","A","r","a","b"," ","E","m","i","r","a","t","e","s">>>>,
       <<<<"h","o","n","g"," ","k","o","n","g">>, <<"C","h","i","n","a">>>> }
AliasKeys == {e[1] : e \in COUNTRY_NORMALIZATION}
CanonicalNames == {e[2] : e \in COUNTRY_NORMALIZATION}

\* dict.get(key, default)
dict_get(table, key, default) ==
    IF \E e \in table : e[1] = key
    THEN (CHOOSE e \in table : e[1] = key)[2]
    ELSE default

fallback_lowercased(original) == lower(strip(original))

\* country.strip().title(), the default of the two look-ups
fallback(original) == title(strip(original))

normalize_country(c) ==
    IF c = <<>> THEN <<>>
    ELSE LET key == lower(strip(c))
             key2 == strip(alnum_or_space(key))
         IN dict_get(COUNTRY_NORMALIZATION, key,
                     dict_get(COUNTRY_NORMALIZATION, key2, fallback(c)))

city_word_first_only(w) == capitalize_first_only(w)

\* w.capitalize() of each word of the city
city_word(w) == capitalize(w)

normalize_city(c) ==
    IF c = <<>> THEN <<>>
    ELSE LET ws == split(strip(c))
         IN join(<<" ">>, [i \in 1..Len(ws) |-> city_word(ws[i])])

---------------------------------------------------------------------------
(* Paths (posixpath).  An absolute, normalized path is the sequence of its *)
(* components.                                                             *)

\* str.split("/"): the pieces between the separators, empty pieces kept
RECURSIVE splitSep(_, _, _)
splitSep(s, cur, acc) ==
    IF s = <<>> THEN Append(acc, cur)
    ELSE IF Head(s) = "/" THEN splitSep(Tail(s), <<>>, Append(acc, cur))
    ELSE splitSep(Tail(s), Append(cur, Head(s)), acc)

\* os.path.join(a, b): b replaces a when b is absolute
join2(a, b) ==
    IF b # <<>> /\ Head(b) = "/" THEN b
    ELSE IF a = <<>> \/ a[Len(a)] = "/" THEN a \o b
    ELSE a \o <<"/">> \o b

\* os.path.join(a, *p)
RECURSIVE os_path_join(_)
os_path_join(parts) ==
    IF Len(parts) = 1 THEN parts[1]
    ELSE join2(os_path_join(SubSeq(parts, 1, Len(parts) - 1)), parts[Len(parts)])

\* os.path.normpath of an absolute path: "" and "." are dropped, ".." removes
\* the component before it (and is dropped at the root)
RECURSIVE normComps(_, _)
normComps(comps, acc) ==
    IF comps = <<>> THEN acc
    ELSE LET c == Head(comps) IN
         IF c = <<>> \/ c = <<".">> THEN normComps(Tail(comps), acc)
         ELSE IF c = <<".", ".">>
              THEN normComps(Tail(comps),
                             IF acc = <<>> THEN acc ELSE SubSeq(acc, 1, Len(acc) - 1))
              ELSE normComps(Tail(comps), Append(acc, c))

\* os.getcwd(): the directory the script is started in
cwd == <<"/","w","o","r","k">>

\* os.path.abspath(path)
abspath(path) == normComps(splitSep(join2(cwd, path), <<>>, <<>>), <<>>)

---------------------------------------------------------------------------
(* Configuration.                                                          *)

SOURCE_FOLDER == <<"P","D","F","s","F","o","r","O","r","g","a","n","i","z","e","r">>
DESTINATION_FOLDER == <<"O","r","g","a","n","i","z","e","r","P","d","f","s">>
IGNORE_KEYWORDS == <<<<>>, <<>>>>

\* IGNORE_KEYWORDS is meant to be edited by the user; the shipped value and
\* two edited ones.
KeywordConfigs == {IGNORE_KEYWORDS, <<>>, <<<<"b">>>>}

\* The source folder, in the order os.listdir returns it; a run finds any
\* MaxFiles of its entries.
Folder == <<<<"n",".","t","x","t">>, <<"a",".","p","d","f">>, <<"B",".","P","D","F">>>>
FileNames == Range(Folder)

Pick(S) ==
    LET at == SelectSeq([i \in 1..Len(Folder) |-> i], LAMBDA i : i \in S)
    IN [j \in 1..Len(at) |-> Folder[at[j]]]

Listings == {Pick(S) : S \in {T \in SUBSET (1..Len(Folder)) : Cardinality(T) <= MaxFiles}}

---------------------------------------------------------------------------
(* What json.loads can return.                                             *)

\* A value of a field of a record: a str, a number other than 0, null, or
\* the key is absent (d.get then returns None).
Str(s) == [t |-> "str", s |-> s]
Num == [t |-> "num", s |-> <<"5">>]
Null == [t |-> "null", s |-> <<>>]
Absent == [t |-> "absent", s |-> <<>>]

\* bool(v)
truthy(v) == v.t = "num" \/ (v.t = "str" /\ v.s # <<>>)

Keys == {"city", "cidade", "country", "pais", "continent", "continente"}

NoKeys == [k \in Keys |-> Absent]

\* An element of the list: a JSON object with its fields, or something else.
Dict(m) == [t |-> "dict", m |-> m]
NonDict(t) == [t |-> t, m |-> NoKeys]

Rec(ci, co, ct) ==
    Dict([k \in Keys |-> CASE k = "city" -> ci
                           [] k = "country" -> co
                           [] k = "continent" -> ct
                           [] OTHER -> Absent])

Localized(ci, co, ct) ==
    Dict([k \in Keys |-> CASE k = "cidade" -> ci
                           [] k = "pais" -> co
                           [] k = "continente" -> ct
                           [] OTHER -> Absent])

CityValues == {Absent, Str(<<" ">>), Str(<<" ","P","A","R","I","S"," ">>), Str(<<"a","/","b">>), Num}
CountryValues == {Null, Str(<<" ">>), Num}
ContinentValues == {Absent, Str(<<>>), Str(<<" ">>), Str(<<" ","e","u","r","o","p","e"," ">>), Num}

Paris == Str(<<"p","a","r","i","s">>)
France == Str(<<"f","r","a","n","c","e">>)
Europe == Str(<<"e","u","r","o","p","e">>)

\* The elements the classifier's list is drawn from.
Elements ==
    {Rec(Paris, France, Europe), Localized(Paris, France, Europe)}
    \cup {Rec(ci, France, Europe) : ci \in CityValues}
    \cup {Rec(Paris, co, Europe) : co \in CountryValues}
    \cup {Rec(Paris, France, ct) : ct \in ContinentValues}
    \cup {NonDict("num"), NonDict("null")}

\* The value json.loads returned: its type and its length (its value, for a
\* number or a boolean; 0 for null).
Top(t, n) == [t |-> t, n |-> n]

TopValues ==
    {Top("list", n) : n \in 0..MaxRecs}
    \cup {Top("dict", 0), Top("dict", 1), Top("str", 1), Top("num", 0),
          Top("num", 1), Top("null", 0), Top("bool", 1)}

\* The answer of the classification service: the call raises, or returns a
\* text that (once the code fences are removed) is or is not JSON.
Responses ==
    {[api |-> "error", parses |-> FALSE, value |-> Top("null", 0)],
     [api |-> "ok", parses |-> FALSE, value |-> Top("null", 0)]}
    \cup {[api |-> "ok", parses |-> TRUE, value |-> v] : v \in TopValues}

analyze_text_with_gemini(response) ==
    IF response.api = "error" THEN Top("list", 0)
    ELSE IF ~response.parses THEN Top("list", 0)
    ELSE response.value

\* bool(destinations)
truthy_top(v) == v.n > 0

\* The elements "for d in destinations" yields: those of a list; the keys of
\* a dict and the characters of a str are strs.
Iterated(v) == IF v.t = "list" THEN Elements ELSE {NonDict("str")}

iterable(v) == v.t \in {"list", "dict", "str"}

---------------------------------------------------------------------------
(* The record loop of main.                                                *)

\* d.get(a) or d.get(b) or ""
first_truthy(e, a, b) ==
    IF truthy(e.m[a]) THEN e.m[a]
    ELSE IF truthy(e.m[b]) THEN e.m[b]
    ELSE Str(<<>>)

city_raw(e) == first_truthy(e, "city", "cidade")
country_raw(e) == first_truthy(e, "country", "pais")
continent_raw(e) == first_truthy(e, "continent", "continente")

\* d.get on something that is no dict, or .strip / .upper on something that
\* is no str, raises AttributeError
raises(e) ==
    \/ e.t # "dict"
    \/ city_raw(e).t # "str"
    \/ country_raw(e).t # "str"
    \/ continent_raw(e).t # "str"

\* continent_raw.upper()
continent_of(raw) == upper(raw)

complete_ignoring_continent(ci, co, ct) == ci # <<>> /\ co # <<>>

\* city and country and continent
complete(ci, co, ct) == ci # <<>> /\ co # <<>> /\ ct # <<>>

\* The elements main can normalize without raising.
WellTyped == {e \in Elements : ~raises(e)}

\* city, country, continent and final_dir as main computes them for element e
normalized ==
    [e \in WellTyped |->
        LET ci == normalize_city(city_raw(e).s)
            co == normalize_country(country_raw(e).s)
            ct == continent_of(continent_raw(e).s)
        IN [city |-> ci, country |-> co, continent |-> ct,
            complete |-> complete(ci, co, ct),
            final_dir |-> os_path_join(<<DESTINATION_FOLDER, ct, co, ci>>)]]

\* src = os.path.join(SOURCE_FOLDER, filename), made absolute for the key
abs_src == [name \in FileNames |-> abspath(os_path_join(<<SOURCE_FOLDER, name>>))]

\* dst = os.path.join(final_dir, filename), made absolute for the key
abs_dst ==
    [e \in WellTyped, name \in FileNames |->
        abspath(os_path_join(<<normalized[e].final_dir, name>>))]

abs_dir == [e \in WellTyped |-> abspath(normalized[e].final_dir)]

filename == listing[idx]

\* key = (os.path.abspath(src), os.path.abspath(dst))
key_of(e) == <<abs_src[filename], abs_dst[e, filename]>>

skip_never(key, seen) == FALSE

\* key in copied
already_copied(key, seen) == key \in seen

record_every_attempt(seen, key, ok) == seen \cup {key}

\* copied.add(key), reached only when shutil.copy2 returned
record_copy(seen, key, ok) == IF ok THEN seen \cup {key} ELSE seen

NoOps == [starts |-> 0, fails |-> 0, placed |-> 0]
ops_of(key) == IF key \in DOMAIN ops THEN ops[key] ELSE NoOps
count(key, ok) ==
    [k \in DOMAIN ops \cup {key} |->
        IF k = key
        THEN [starts |-> ops_of(k).starts + 1,
              fails |-> ops_of(k).fails + (IF ok THEN 0 ELSE 1),
              placed |-> ops_of(k).placed + (IF ok THEN 1 ELSE 0)]
        ELSE ops[k]]

NoElement == NonDict("none")

Init ==
    /\ ignoreKeywords \in KeywordConfigs
    /\ listing \in Listings
    /\ pc = "start"
    /\ idx = 1
    /\ destinations = Top("list", 0)
    /\ recNo = 0
    /\ d = NoElement
    /\ city = <<>>
    /\ country = <<>>
    /\ continent = <<>>
    /\ dst = <<>>
    /\ outcome = ""
    /\ copied = {}
    /\ dirs = {}
    /\ files = {}
    /\ ops = <<>>
    /\ ignored = {}
    /\ extracted = {}
    /\ analyzed = {}
    /\ incomplete = {}
    /\ exc = ""
    /\ fn = ""
    /\ arg = <<>>
    /\ ret = <<>>

recVars == <<d, city, country, continent, dst, outcome>>
fsVars == <<copied, dirs, files, ops>>
callVars == <<fn, arg, ret>>

\* log_header("START"); os.makedirs(DESTINATION_FOLDER, exist_ok=True); copied = set()
Start ==
    /\ pc = "start"
    /\ pc' = "files"
    /\ dirs' = dirs \cup {abspath(DESTINATION_FOLDER)}
    /\ copied' = {}
    /\ UNCHANGED <<ignoreKeywords, listing, idx, destinations, recNo, recVars, files,
                   ops, ignored, extracted, analyzed, incomplete, exc, callVars>>

is_pdf(name) == endswith(lower(name), <<".","p","d","f">>)

ignored_by_nonempty_keyword(name, keywords) ==
    \E i \in 1..Len(keywords) : keywords[i] # <<>> /\ contains(lower(name), keywords[i])

\* any(k in filename.lower() for k in IGNORE_KEYWORDS)
ignored_by_keywords(name, keywords) ==
    \E i \in 1..Len(keywords) : contains(lower(name), keywords[i])

AtFile == pc = "files" /\ idx <= Len(listing)

\* if not filename.lower().endswith(".pdf"): continue
SkipNonPdf ==
    /\ AtFile
    /\ ~is_pdf(filename)
    /\ idx' = idx + 1
    /\ UNCHANGED <<ignoreKeywords, listing, pc, destinations, recNo, recVars, fsVars,
                   ignored, extracted, analyzed, incomplete, exc, callVars>>

\* the keyword filter: "[IGNORED]" is logged, the file is not opened
IgnoreFile ==
    /\ AtFile
    /\ is_pdf(filename)
    /\ ignored_by_keywords(filename, ignoreKeywords)
    /\ ignored' = ignored \cup {filename}
    /\ idx' = idx + 1
    /\ UNCHANGED <<ignoreKeywords, listing, pc, destinations, recNo, recVars, fsVars,
                   extracted, analyzed, incomplete, exc, callVars>>

Reaches == AtFile /\ is_pdf(filename) /\ ~ignored_by_keywords(filename, ignoreKeywords)

\* extract_text returned "" (the PDF cannot be read) or only whitespace
NoText ==
    /\ Reaches
    /\ extracted' = extracted \cup {filename}
    /\ idx' = idx + 1
    /\ UNCHANGED <<ignoreKeywords, listing, pc, destinations, recNo, recVars, fsVars,
                   ignored, analyzed, incomplete, exc, callVars>>

\* the text is sent to the classifier; "if not destinations: continue"
Analyze ==
    /\ Reaches
    /\ \E response \in Responses :
        LET v == analyze_text_with_gemini(response) IN
        /\ destinations' = v
        /\ IF truthy_top(v)
           THEN pc' = "records" /\ idx' = idx
           ELSE pc' = pc /\ idx' = idx + 1
    /\ recNo' = 0
    /\ extracted' = extracted \cup {filename}
    /\ analyzed' = analyzed \cup {filename}
    /\ UNCHANGED <<ignoreKeywords, listing, recVars, fsVars, ignored, incomplete, exc,
                   callVars>>

AtRecord == pc = "records" /\ iterable(destinations) /\ recNo < destinations.n

\* "for d in destinations" on a number or a boolean raises TypeError
IterateScalar ==
    /\ pc = "records"
    /\ ~iterable(destinations)
    /\ pc' = "aborted"
    /\ exc' = "TypeError"
    /\ UNCHANGED <<ignoreKeywords, listing, idx, destinations, recNo, recVars, fsVars,
                   ignored, extracted, analyzed, incomplete, callVars>>

\* d.get, normalize_city, normalize_country or continent_raw.upper() raises
\* AttributeError; nothing in main catches it
RecordRaises ==
    /\ AtRecord
    /\ \E e \in Iterated(destinations) :
        /\ raises(e)
        /\ d' = e
    /\ recNo' = recNo + 1
    /\ outcome' = "RAISED"
    /\ pc' = "aborted"
    /\ exc' = "AttributeError"
    /\ UNCHANGED <<ignoreKeywords, listing, idx, destinations, city, country, continent,
                   dst, fsVars, ignored, extracted, analyzed, incomplete, callVars>>

Normalized(e) ==
    /\ d' = e
    /\ city' = normalized[e].city
    /\ country' = normalized[e].country
    /\ continent' = normalized[e].continent
    /\ recNo' = recNo + 1

\* if not (city and country and continent): log "[INCOMPLETE]"; continue
RecordIncomplete ==
    /\ AtRecord
    /\ \E e \in Iterated(destinations) :
        /\ ~raises(e)
        /\ Normalized(e)
        /\ ~normalized[e].complete
    /\ incomplete' = incomplete \cup {<<filename, recNo'>>}
    /\ outcome' = "REJECTED"
    /\ UNCHANGED <<ignoreKeywords, listing, pc, idx, destinations, dst, fsVars, ignored,
                   extracted, analyzed, exc, callVars>>

Complete(e) ==
    /\ ~raises(e)
    /\ Normalized(e)
    /\ normalized[e].complete
    /\ dst' = abs_dst[e, filename]

\* os.makedirs(final_dir, exist_ok=True) raises OSError (permissions, a file
\* in the way, disk): it is outside the try, so main ends.  With exist_ok it
\* does not raise for a directory that this run has already created.
MakedirsFails ==
    /\ AtRecord
    /\ \E e \in Iterated(destinations) :
        /\ Complete(e)
        /\ abs_dir[e] \notin dirs
    /\ outcome' = "RAISED"
    /\ pc' = "aborted"
    /\ exc' = "OSError"
    /\ UNCHANGED <<ignoreKeywords, listing, idx, destinations, fsVars, ignored,
                   extracted, analyzed, incomplete, callVars>>

\* if key in copied: "Already copied (skipping)"; continue
RecordSkipped ==
    /\ AtRecord
    /\ \E e \in Iterated(destinations) :
        /\ Complete(e)
        /\ already_copied(key_of(e), copied)
        /\ dirs' = dirs \cup {abs_dir[e]}
    /\ outcome' = "SKIPPED"
    /\ UNCHANGED <<ignoreKeywords, listing, pc, idx, destinations, copied, files, ops,
                   ignored, extracted, analyzed, incomplete, exc, callVars>>

\* shutil.copy2(src, dst) returns: copied.add(key), "Copied to"
RecordPlaced ==
    /\ AtRecord
    /\ \E e \in Iterated(destinations) :
        /\ Complete(e)
        /\ ~already_copied(key_of(e), copied)
        /\ dirs' = dirs \cup {abs_dir[e]}
        /\ copied' = record_copy(copied, key_of(e), TRUE)
        /\ files' = files \cup {dst'}
        /\ ops' = count(key_of(e), TRUE)
    /\ outcome' = "PLACED"
    /\ UNCHANGED <<ignoreKeywords, listing, pc, idx, destinations, ignored, extracted,
                   analyzed, incomplete, exc, callVars>>

\* shutil.copy2(src, dst) raises: the except prints "Copy error"
CopyFails ==
    /\ AtRecord
    /\ \E e \in Iterated(destinations) :
        /\ Complete(e)
        /\ ~already_copied(key_of(e), copied)
        /\ dirs' = dirs \cup {abs_dir[e]}
        /\ copied' = record_copy(copied, key_of(e), FALSE)
        /\ ops' = count(key_of(e), FALSE)
    /\ outcome' = "FAILED"
    /\ UNCHANGED <<ignoreKeywords, listing, pc, idx, destinations, files, ignored,
                   extracted, analyzed, incomplete, exc, callVars>>

\* the inner loop is exhausted: next file (d and what was computed from it are
\* not read again)
EndRecords ==
    /\ pc = "records"
    /\ iterable(destinations)
    /\ recNo = destinations.n
    /\ pc' = "files"
    /\ idx' = idx + 1
    /\ d' = NoElement
    /\ city' = <<>>
    /\ country' = <<>>
    /\ continent' = <<>>
    /\ dst' = <<>>
    /\ outcome' = ""
    /\ UNCHANGED <<ignoreKeywords, listing, destinations, recNo, fsVars,
                   ignored, extracted, analyzed, incomplete, exc, callVars>>

\* the outer loop is exhausted: log_header("END")
Finish ==
    /\ pc = "files"
    /\ idx > Len(listing)
    /\ pc' = "done"
    /\ UNCHANGED <<ignoreKeywords, listing, idx, destinations, recNo, recVars, fsVars,
                   ignored, extracted, analyzed, incomplete, exc, callVars>>

Next ==
    \/ Start
    \/ SkipNonPdf
    \/ IgnoreFile
    \/ NoText
    \/ Analyze
    \/ IterateScalar
    \/ RecordRaises
    \/ RecordIncomplete
    \/ MakedirsFails
    \/ RecordSkipped
    \/ RecordPlaced
    \/ CopyFails
    \/ EndRecords
    \/ Finish

Spec == Init /\ [][Next]_vars

---------------------------------------------------------------------------
(* Direct calls of the normalizers.                                        *)

Padded(s) == <<" ">> \o s \o <<" ", " ">>
Dotted(s) == s \o <<".">>

CountryInputs ==
    AliasKeys \cup CanonicalNames
    \cup {upper(k) : k \in AliasKeys}
    \cup {Padded(k) : k \in AliasKeys}
    \cup {Dotted(k) : k \in AliasKeys}
    \cup {<<>>, <<" ">>, <<"f","r","a","n","c","e">>, <<"c","o","t","e"," ","d"," ","i","v","o","i","r","e">>, <<"n","e","w"," ","z","e","a","l","a","n","d">>, <<"o","'","n","e","i","l"," ","l","a","n","d">>}

CityInputs ==
    {<<>>, <<" ">>, <<"p","a","r","i","s">>, <<" "," ","s","a","o"," "," "," ","p","a","u","l","o"," ">>, <<"m","c","A","l","l","e","n">>, <<"N","E","W"," ","Y","O","R","K">>,
     <<"n","e","w"," ","y","o","r","k">>, <<"s","a","n"," ","j","o","s","e">>, <<"s","t","."," ","l","o","u","i","s">>, <<"a","/","b">>, <<"x">>, <<"a","B"," ","c","D">>, <<" ","m","c","A","l","l","e","n"," "," ","p","a","r","k"," ">>}

InitNorm ==
    /\ Init
    /\ ignoreKeywords = IGNORE_KEYWORDS
    /\ listing = <<<<"a",".","p","d","f">>>>

CallNormalizeCountry ==
    /\ \E x \in CountryInputs :
        /\ arg' = x
        /\ ret' = normalize_country(x)
    /\ fn' = "normalize_country"
    /\ UNCHANGED mainVars

CallNormalizeCity ==
    /\ \E x \in CityInputs :
        /\ arg' = x
        /\ ret' = normalize_city(x)
    /\ fn' = "normalize_city"
    /\ UNCHANGED mainVars

NextNorm ==
    \/ CallNormalizeCountry
    \/ CallNormalizeCity

SpecNorm == InitNorm /\ [][NextNorm]_vars

---------------------------------------------------------------------------
(* Properties.                                                             *)

\* The step just taken is an iteration of "for d in destinations" that ran to
\* one of its ends without raising.
Handled == pc = "records" /\ outcome \in {"REJECTED", "SKIPPED", "PLACED", "FAILED"}

\* A step of the inner loop that takes the element d'.
RecordStep == AtRecord /\ recNo' = recNo + 1

\* C1 as stated: for every PlacementKey at most one copy (shutil.copy2) is
\* ever started within a run, whether or not a copy fails.
C1_AtMostOneCopyStarted == \A k \in DOMAIN ops : ops[k].starts <= 1

\* C1 as amended: a key is in copied exactly when one copy of it has
\* succeeded, and every copy started for a key either failed or is that one
\* success; a failed copy does not mark the key, so it is started again.
C1_OneSuccessPerKey ==
    /\ copied \subseteq DOMAIN ops
    /\ \A k \in DOMAIN ops :
        ops[k].starts = ops[k].fails + (IF k \in copied THEN 1 ELSE 0)

\* A copy of a key failed, and a later record with the same key started a
\* second copy, which succeeded.
C1_Witness ==
    \E k \in DOMAIN ops : ops[k].starts = 2 /\ ops[k].fails = 1 /\ k \in copied

\* C2: no failure of os.makedirs or shutil.copy2 during placement ends the
\* run; the remaining records and documents are still processed.
C2_PlacementFailureContained == exc # "OSError"

\* C3: nothing the classifier answers ends the run: a payload that is no
\* list, or an element that is no object or has a field that is no string,
\* is treated as "no destination".
C3_MalformedPayloadContained == exc \notin {"AttributeError", "TypeError"}

\* C4: a key never gets a second PLACED; once a copy of a key has succeeded,
\* every later record with that key is skipped and nothing is copied.
C4_NoSecondPlaced ==
    /\ [](\A k \in DOMAIN ops : ops[k].placed <= 1)
    /\ [][(/\ RecordStep
           /\ ~raises(d')
           /\ normalized[d'].complete
           /\ key_of(d') \in copied)
          => (/\ outcome' = "SKIPPED"
              /\ pc' = "records"
              /\ UNCHANGED <<copied, files, ops>>)]_vars

\* The record " PARIS " / france / europe is skipped because another spelling
\* of the same destination was placed before it.
C4_Witness ==
    /\ Handled
    /\ outcome = "SKIPPED"
    /\ d = Rec(Str(<<" ","P","A","R","I","S"," ">>), France, Europe)
    /\ ops[key_of(d)].placed = 1

\* C5: every copy goes to <root>/<CONTINENT>/<Country>/<City>/<file name>,
\* continent, country and city being one path component each, whatever the
\* normalized values are.
C5_FourLevelsBelowRoot ==
    (Handled /\ outcome \in {"PLACED", "FAILED"})
        => dst = abspath(DESTINATION_FOLDER) \o <<continent, country, city, filename>>

\* One of the three fields is missing or empty under both of its keys, or
\* normalizes to the empty string.
Missing(e, a, b) ==
    /\ e.m[a].t \in {"absent", "null"} \/ e.m[a] = Str(<<>>)
    /\ e.m[b].t \in {"absent", "null"} \/ e.m[b] = Str(<<>>)

Incomplete(e) ==
    /\ e.t = "dict"
    /\ \/ Missing(e, "city", "cidade")
       \/ Missing(e, "country", "pais")
       \/ Missing(e, "continent", "continente")
       \/ /\ ~raises(e)
          /\ \/ normalized[e].city = <<>>
             \/ normalized[e].country = <<>>
             \/ normalized[e].continent = <<>>

\* C6: for an incomplete record main creates no directory, copies nothing and
\* adds nothing to copied; when the fields that are present are strings, it
\* logs the record as INCOMPLETE and goes on with the next one.
C6_IncompleteNeverPlaced ==
    [][(RecordStep /\ Incomplete(d'))
       => (/\ UNCHANGED <<dirs, files, copied, ops>>
           /\ ~raises(d') => (/\ outcome' = "REJECTED"
                              /\ <<filename, recNo'>> \in incomplete'
                              /\ pc' = "records"))]_vars

\* A record with no country was rejected and logged, and the record after it
\* has been placed.
C6_Witness ==
    /\ Handled
    /\ outcome = "PLACED"
    /\ <<filename, recNo - 1>> \in incomplete

\* The result has no whitespace but single spaces between words.
Collapsed(r) ==
    \A i \in 1..Len(r) :
        isspace(r[i]) => r[i] = " " /\ 1 < i /\ i < Len(r) /\ ~isspace(r[i + 1])

\* C7 as stated: normalize_city trims, collapses whitespace and upper-cases
\* the first character of each word, leaving the other characters as they are.
C7_RemainderUnchanged ==
    fn = "normalize_city" =>
        LET a == split(arg)
            r == split(ret)
        IN /\ Collapsed(ret)
           /\ Len(r) = Len(a)
           /\ \A i \in 1..Len(a) :
                Head(r[i]) = upper1(Head(a[i])) /\ Tail(r[i]) = Tail(a[i])

\* C7 as amended: normalize_city trims, collapses whitespace, upper-cases the
\* first character of each word and lower-cases the other characters.
C7_RemainderLowered ==
    fn = "normalize_city" =>
        LET a == split(arg)
            r == split(ret)
        IN /\ Collapsed(ret)
           /\ Len(r) = Len(a)
           /\ \A i \in 1..Len(a) :
                Head(r[i]) = upper1(Head(a[i])) /\ Tail(r[i]) = lower(Tail(a[i]))

\* A word with an internal capital, between runs of spaces.
C7_Witness ==
    fn = "normalize_city" /\ arg = <<" ","m","c","A","l","l","e","n"," "," ","p","a","r","k"," ">> /\ ret = <<"M","c","a","l","l","e","n"," ","P","a","r","k">>

\* C8: the continent main tests and uses as path component is the raw
\* continent trimmed and upper-cased.
C8_ContinentTrimmed == Handled => continent = upper(strip(continent_raw(d).s))

\* C9: normalize_country(normalize_country(x)) = normalize_country(x) for
\* every alias key x of COUNTRY_NORMALIZATION.
C9_IdempotentOnAliases ==
    (fn = "normalize_country" /\ arg \in AliasKeys) => normalize_country(ret) = ret

\* An alias whose canonical name is no key of the table.
C9_Witness ==
    /\ fn = "normalize_country"
    /\ arg = <<"u","s","a">>
    /\ ret = <<"U","n","i","t","e","d"," ","S","t","a","t","e","s">>
    /\ ret \notin AliasKeys
    /\ lower(ret) \notin AliasKeys

\* C10: with the shipped IGNORE_KEYWORDS every PDF is reported as ignored and
\* main never extracts, classifies, creates a destination directory or copies.
C10_ShippedConfigIgnoresAll ==
    ignoreKeywords = IGNORE_KEYWORDS =>
        /\ pc \notin {"records", "aborted"}
        /\ extracted = {} /\ analyzed = {}
        /\ files = {} /\ copied = {} /\ ops = <<>>
        /\ dirs \subseteq {abspath(DESTINATION_FOLDER)}
        /\ \A i \in 1..(idx - 1) : is_pdf(listing[i]) => listing[i] \in ignored

\* A run with the shipped configuration over two PDFs has ended.
C10_Witness ==
    /\ ignoreKeywords = IGNORE_KEYWORDS
    /\ pc = "done"
    /\ Cardinality(ignored) = 2

=============================================================================
